---- MODULE Spec2Model ----
(***************************************************************************)
(* fast-readability: the Python control layer around Mozilla's             *)
(* readability.js run inside QuickJS.                                      *)
(*                                                                         *)
(*   fast_readability/readability.py  ReadabilityResult, Readability       *)
(*   fast_readability/utils.py        parse_html, is_probably_readerable,  *)
(*                                    parse_from_url                       *)
(*                                                                         *)
(* Threads run `with Readability(...) as reader:` blocks.  A block of the  *)
(* convenience functions of utils.py holds exactly one call on a default   *)
(* instance; a block written by a user holds up to MaxCalls calls on an    *)
(* instance with any limits.  Instances and QuickJS contexts live in two   *)
(* heaps, so that sharing between calls is expressible.                    *)
(*                                                                         *)
(* Units: memory in MB, time in seconds, text length in characters.        *)
(***************************************************************************)
EXTENDS Integers, Sequences, FiniteSets, TLC

---------------------------------------------------------------------------
(* Bounds of the model *)

\* threads of the concurrent specification
NThreads == 2

\* calls made inside one user-written with-block
MaxCalls == 2

---------------------------------------------------------------------------
(* Program constants *)

\* Readability.__init__: memory_limit = 50 * 1024 * 1024 bytes
DefaultMemoryLimit == 50

\* Readability.__init__: time_limit = 10 seconds
DefaultTimeLimit == 10

\* charThreshold used when the options carry none
DefaultCharThreshold == 500

\* a QuickJS context on which no limit was set
NoLimit == -1

\* _initialize_context: the files, in loading order
js_files == <<"JSDOMParser.js", "Readability.js", "readability_wrapper.js">>

---------------------------------------------------------------------------
(* Python and JavaScript values.  Every value carries its type, so that    *)
(* values of different types can be compared.                              *)

None == [t |-> "null"]

Undefined == [t |-> "undefined"]

PyBool(b) == [t |-> "bool", v |-> b]

PyInt(n) == [t |-> "int", v |-> n]

PyStr(s) == [t |-> "str", v |-> s]

\* a float, held in tenths: PyFloat(5) is 0.5
PyFloat(tenths) == [t |-> "float", v |-> tenths]

\* a list
PyList(seq) == [t |-> "list", v |-> seq]

\* Python ==: an int and a float are equal when they are the same number
PyEq(x, y) ==
    IF x.t \in {"int", "float"} /\ y.t \in {"int", "float"}
    THEN (IF x.t = "int" THEN 10 * x.v ELSE x.v)
         = (IF y.t = "int" THEN 10 * y.v ELSE y.v)
    ELSE x = y

\* a Python dict / a JS object: a function from keys to values
Dict(f) == [t |-> "dict", v |-> f]

\* a quickjs.Object handle, as Context.eval returns for a JS object
JsObject(f) == [t |-> "object", v |-> f]

\* Python truthiness: bool(x), `not x`
Truthy(x) ==
    CASE x.t = "null" -> FALSE
      [] x.t = "undefined" -> FALSE
      [] x.t = "bool" -> x.v
      [] x.t = "int" -> x.v # 0
      [] x.t = "str" -> x.v # ""
      [] x.t = "dict" -> DOMAIN x.v # {}
      [] OTHER -> TRUE

\* dict.get(key, default), for x a dict
DictGet(x, key, default) ==
    IF key \in DOMAIN x.v THEN x.v[key] ELSE default

\* the outcome of a Python call: a returned value or a raised exception
Return(x) == [k |-> "return", v |-> x]

\* msg is the message's fixed prefix, detail the value formatted into it
Raise(exc, msg, detail) == [k |-> "raise", exc |-> exc, msg |-> msg, detail |-> detail]

NoOutcome == [k |-> "none"]

---------------------------------------------------------------------------
(* ReadabilityResult *)

\* the dataclass with its defaults: every field None
EmptyResult ==
    [t |-> "ReadabilityResult",
     title |-> None, content |-> None, text_content |-> None,
     length |-> None, excerpt |-> None, byline |-> None, dir |-> None,
     site_name |-> None, lang |-> None, published_time |-> None]

\* from_dict without its `if not data` guard
from_dict_mut(data) ==
    IF data.t # "dict"
    THEN Raise("AttributeError", "object has no attribute", PyStr("get"))
    ELSE Return(
        [t |-> "ReadabilityResult",
         title |-> DictGet(data, "title", None),
         content |-> DictGet(data, "content", None),
         text_content |-> DictGet(data, "textContent", None),
         length |-> DictGet(data, "length", None),
         excerpt |-> DictGet(data, "excerpt", None),
         byline |-> DictGet(data, "byline", None),
         dir |-> DictGet(data, "dir", None),
         site_name |-> DictGet(data, "siteName", None),
         lang |-> DictGet(data, "lang", None),
         published_time |-> DictGet(data, "publishedTime", None)])

\* from_dict reading site_name under the name of the Python field
from_dict_key_mut(data) ==
    IF ~Truthy(data) THEN Return(EmptyResult)
    ELSE Return(
        [t |-> "ReadabilityResult",
         title |-> DictGet(data, "title", None),
         content |-> DictGet(data, "content", None),
         text_content |-> DictGet(data, "textContent", None),
         length |-> DictGet(data, "length", None),
         excerpt |-> DictGet(data, "excerpt", None),
         byline |-> DictGet(data, "byline", None),
         dir |-> DictGet(data, "dir", None),
         site_name |-> DictGet(data, "site_name", None),
         lang |-> DictGet(data, "lang", None),
         published_time |-> DictGet(data, "publishedTime", None)])

\* ReadabilityResult.from_dict(data)
from_dict(data) ==
    IF ~Truthy(data) THEN Return(EmptyResult)
    ELSE IF data.t # "dict"
    THEN Raise("AttributeError", "object has no attribute", PyStr("get"))
    ELSE Return(
        [t |-> "ReadabilityResult",
         title |-> DictGet(data, "title", None),
         content |-> DictGet(data, "content", None),
         text_content |-> DictGet(data, "textContent", None),
         length |-> DictGet(data, "length", None),
         excerpt |-> DictGet(data, "excerpt", None),
         byline |-> DictGet(data, "byline", None),
         dir |-> DictGet(data, "dir", None),
         site_name |-> DictGet(data, "siteName", None),
         lang |-> DictGet(data, "lang", None),
         published_time |-> DictGet(data, "publishedTime", None)])

---------------------------------------------------------------------------
(* Conversions between Python and JavaScript values *)

RECURSIVE ToJs(_)
\* json.dumps(x) spliced into the JS source: the JS literal it denotes
ToJs(x) ==
    IF x.t = "dict"
    THEN JsObject([key \in DOMAIN x.v |-> ToJs(x.v[key])])
    ELSE x

RECURSIVE ToPython(_)
\* json.loads(JSON.stringify(x)): JSON.stringify drops the properties whose
\* value is undefined, json.loads makes objects dicts
ToPython(x) ==
    IF x.t = "object"
    THEN Dict([key \in {k \in DOMAIN x.v : x.v[k].t # "undefined"} |->
                  ToPython(x.v[key])])
    ELSE x

---------------------------------------------------------------------------
(* Inputs.  A markup string is described by what the engine makes of it:   *)
(* whether it parses (wf), the length of its readable text (len), and the  *)
(* CPU seconds (work) and MB of JS heap (mem) the engine needs for it.     *)

Doc(wf, len, work, mem) == [wf |-> wf, len |-> len, work |-> work, mem |-> mem]

\* "<<invalid>>html<<" of tests/test_utils.py
InvalidDoc == Doc(FALSE, 0, 1, 1)

\* "" of tests/test_readability.py
EmptyDoc == Doc(TRUE, 0, 1, 1)

\* "<div>Short</div>" of the tests: short boilerplate
ShortDoc == Doc(TRUE, 5, 1, 1)

\* light documents of every length class, and two heavy articles: one needs
\* 7 s, more than a 5 s limit allows; one needs 24 MB, which beside the 3 MB
\* of the loaded files is over a 25 MB limit, and under a 50 MB limit leaves
\* no room for the copy JSON.stringify makes
Docs ==
    {InvalidDoc, EmptyDoc, ShortDoc, Doc(TRUE, 60, 1, 1), Doc(TRUE, 600, 1, 1),
     Doc(TRUE, 600, 7, 1), Doc(TRUE, 600, 1, 24)}

\* the options argument: None, or a dict carrying charThreshold
OptionsArgs ==
    {None, Dict([charThreshold |-> PyInt(50),
                 classesToPreserve |-> PyList(<<"article">>)])}

\* (memory_limit, time_limit) given to Readability(...): the defaults,
\* those of examples/basic_usage.py (25 MB, 5 s) and the 100000 bytes of
\* tests/test_readability.py, which is under 1 MB
LimitArgs == {<<DefaultMemoryLimit, DefaultTimeLimit>>, <<25, 5>>, <<0, 5>>}

\* the files that may be present in the package's js directory
JsDirs ==
    {{js_files[i] : i \in 1..3}} \cup
    {{js_files[i] : i \in (1..3) \ {j}} : j \in 1..3}

---------------------------------------------------------------------------
(* The JavaScript side: readability_wrapper.js over Readability.js and     *)
(* JSDOMParser.js.  A JS call returns a value or throws.                   *)

Throw(name) == [k |-> "throw", msg |-> name]

\* the charThreshold an options object configures
CharThreshold(options) ==
    IF "charThreshold" \in DOMAIN options.v
    THEN options.v["charThreshold"].v
    ELSE DefaultCharThreshold

\* the article record Readability.parse() builds from a document
Article(doc) ==
    JsObject(
        [title |-> PyStr("title"), content |-> PyStr("<div>content</div>"),
         textContent |-> PyStr("content"), length |-> PyInt(doc.len),
         excerpt |-> PyStr("excerpt"), byline |-> None, dir |-> None,
         siteName |-> None, lang |-> None, publishedTime |-> None])

\* ReadabilityWrapper.parseHTML(html, url, options)
ReadabilityWrapper_parseHTML(doc, options) ==
    IF ~doc.wf THEN Throw("ParseError")
    ELSE IF doc.len = 0
    THEN Return(JsObject([success |-> PyBool(TRUE), result |-> None]))
    ELSE IF doc.len < CharThreshold(options) THEN Throw("BelowThreshold")
    ELSE Return(JsObject([success |-> PyBool(TRUE), result |-> Article(doc)]))

\* ReadabilityWrapper.isProbablyReaderable(html, url, options): a plain
\* boolean for every markup, true when the text scanned exceeds the threshold
ReadabilityWrapper_isProbablyReaderable(doc, options) ==
    Return(JsObject([success |-> PyBool(TRUE),
                     result |-> PyBool(doc.wf /\ doc.len > CharThreshold(options))]))

---------------------------------------------------------------------------
(* QuickJS contexts.  A context holds the limits set on it and the files   *)
(* evaluated in it; each evaluated file occupies 1 MB of its heap.         *)

FreeContext == [live |-> FALSE]

\* quickjs.Context()
Context == [live |-> TRUE, memory_limit |-> NoLimit, time_limit |-> NoLimit,
            loaded |-> <<>>]

Loaded(c) == {c.loaded[i] : i \in 1..Len(c.loaded)}

\* whether an allocation of `need` MB stays within the context's memory limit
Fits(c, need) ==
    c.memory_limit = NoLimit \/ Len(c.loaded) + need <= c.memory_limit

\* whether `work` seconds of evaluation stay within the context's time limit
InTime(c, work) ==
    c.time_limit = NoLimit \/ work <= c.time_limit

\* Context.eval(js_content) of _initialize_context: the context after it, or
\* the exception raised
Context_eval_file(c, file) ==
    IF Fits(c, 1)
    THEN Return([c EXCEPT !.loaded = Append(@, file)])
    ELSE Raise("JSException", "InternalError", PyStr("out of memory"))

\* the JS function parse and is_probably_readerable build: the wrapper call
\* inside try/catch, the catch answering {success: false, error: message}
js_code(c, method, doc, options) ==
    LET r == IF ~({js_files[i] : i \in 1..3} \subseteq Loaded(c))
             THEN Throw("ReadabilityWrapper is not defined")
             ELSE IF ~Fits(c, doc.mem) THEN Throw("out of memory")
             ELSE IF method = "check"
             THEN ReadabilityWrapper_isProbablyReaderable(doc, ToJs(options))
             ELSE ReadabilityWrapper_parseHTML(doc, ToJs(options))
    IN  IF r.k = "throw"
        THEN Return(JsObject([success |-> PyBool(FALSE), error |-> PyStr(r.msg)]))
        ELSE r

\* self._context.eval(js_code): QuickJS interrupts an evaluation that runs
\* over the time limit with an error no JS catch clause sees
Context_eval(c, method, doc, options) ==
    IF ~c.live
    THEN Raise("AttributeError", "object has no attribute", PyStr("eval"))
    ELSE IF ~InTime(c, doc.work)
    THEN Raise("JSException", "InternalError", PyStr("interrupted"))
    ELSE js_code(c, method, doc, options)

\* the heap JSON.stringify needs for a reply: a copy of the article it holds
StringifyMem(js_result, doc) ==
    IF "result" \in DOMAIN js_result.v /\ js_result.v["result"].t = "object"
    THEN 2 * doc.mem
    ELSE 0

\* Readability._convert_js_result(js_result), for the object handle the JS
\* function returns.  When JSON.stringify or json.loads raises, fallback 1
\* answers: a quickjs.Object shows no JS property as a Python attribute, so
\* the dict it builds holds success False alone.
convert_js_result(c, js_result, doc) ==
    IF c.live /\ Fits(c, StringifyMem(js_result, doc))
    THEN ToPython(js_result)
    ELSE Dict([success |-> PyBool(FALSE)])

---------------------------------------------------------------------------
(* Readability.parse and Readability.is_probably_readerable after the JS   *)
(* evaluation                                                              *)

\* the message an exception carries, as str(e) gives it
ExcText(e) == e.detail

\* _initialize_context: except Exception -> ReadabilityError
WrapInit(e) ==
    Raise("ReadabilityError", "Failed to initialize JavaScript context", ExcText(e))

\* parse with a handler that re-raises whatever it caught
WrapParse_mut(e) == e

\* parse: except Exception -> ReadabilityError, a ReadabilityError re-raised
WrapParse(e) ==
    IF e.exc = "ReadabilityError" THEN e
    ELSE Raise("ReadabilityError", "Failed to parse HTML content", ExcText(e))

\* is_probably_readerable: the same handler
WrapCheck(e) ==
    IF e.exc = "ReadabilityError" THEN e
    ELSE Raise("ReadabilityError", "Failed to check readability", ExcText(e))

\* parse answering a reported failure with an empty result
parse_result_mut(result) ==
    IF result.t # "dict"
    THEN Raise("AttributeError", "object has no attribute", PyStr("get"))
    ELSE IF ~Truthy(DictGet(result, "success", PyBool(FALSE)))
    THEN Return(EmptyResult)
    ELSE from_dict(DictGet(result, "result", None))

\* parse, from the converted result on: the success test, then from_dict
parse_result(result) ==
    IF result.t # "dict"
    THEN Raise("AttributeError", "object has no attribute", PyStr("get"))
    ELSE IF ~Truthy(DictGet(result, "success", PyBool(FALSE)))
    THEN Raise("ReadabilityError", "JavaScript parsing failed",
               DictGet(result, "error", PyStr("Unknown parsing error")))
    ELSE from_dict(DictGet(result, "result", None))

\* is_probably_readerable answering a reported failure with False
check_result_mut(result) ==
    IF result.t # "dict"
    THEN Raise("AttributeError", "object has no attribute", PyStr("get"))
    ELSE IF ~Truthy(DictGet(result, "success", PyBool(FALSE)))
    THEN Return(PyBool(FALSE))
    ELSE Return(PyBool(Truthy(DictGet(result, "result", PyBool(FALSE)))))

\* is_probably_readerable answering with the reply's success flag
check_result_key_mut(result) ==
    IF result.t # "dict"
    THEN Raise("AttributeError", "object has no attribute", PyStr("get"))
    ELSE IF ~Truthy(DictGet(result, "success", PyBool(FALSE)))
    THEN Raise("ReadabilityError", "JavaScript check failed",
               DictGet(result, "error", PyStr("Unknown error")))
    ELSE Return(PyBool(Truthy(DictGet(result, "success", PyBool(FALSE)))))

\* is_probably_readerable, from the converted result on
check_result(result) ==
    IF result.t # "dict"
    THEN Raise("AttributeError", "object has no attribute", PyStr("get"))
    ELSE IF ~Truthy(DictGet(result, "success", PyBool(FALSE)))
    THEN Raise("ReadabilityError", "JavaScript check failed",
               DictGet(result, "error", PyStr("Unknown error")))
    ELSE Return(PyBool(Truthy(DictGet(result, "result", PyBool(FALSE)))))

\* the body of the try block of parse / is_probably_readerable, after the
\* evaluation gave js (a returned handle or a raised exception), and the
\* handler around it
finish_call(method, c, js, doc) ==
    LET body == IF js.k = "raise" THEN js
                ELSE IF method = "check"
                THEN check_result(convert_js_result(c, js.v, doc))
                ELSE parse_result(convert_js_result(c, js.v, doc))
    IN  IF body.k # "raise" THEN body
        ELSE IF method = "check" THEN WrapCheck(body)
        ELSE WrapParse(body)

---------------------------------------------------------------------------
(* State *)

VARIABLES
    mode,   \* "sequential": one thread, any block; "concurrent": several
            \* threads, each running convenience functions
    jsdir,  \* the files present in the package's js directory
    inst,   \* the heap of Readability instances
    ctx,    \* the heap of QuickJS contexts
    th,     \* the threads: where each is in its block and call
    pure,   \* the last application of a function that reads no state: its
            \* name, its argument and its outcome
    proc    \* the process running cli.main: its arguments, its environment,
            \* where it is, what it has written, its exit status

vars == <<mode, jsdir, inst, ctx, th, pure, proc>>

NoProc == [pc |-> "none"]

NoPure == [fn |-> "none"]

InstIds == 1..NThreads

\* a context is created before the one it replaces is released
CtxIds == 1..(NThreads + 1)

FreeInstance == [live |-> FALSE]

\* __init__ that keeps the default budget whatever it is given
Readability_mut(memory_limit, time_limit) ==
    [live |-> TRUE, memory_limit |-> DefaultMemoryLimit,
     time_limit |-> DefaultTimeLimit, context |-> 0, initialized |-> FALSE]

\* Readability.__init__(memory_limit, time_limit)
Readability(memory_limit, time_limit) ==
    [live |-> TRUE, memory_limit |-> memory_limit, time_limit |-> time_limit,
     context |-> 0, initialized |-> FALSE]

NoCall == [m |-> "none"]

NoPrev == [fn |-> "none"]

\* the objects the caller passed by reference and still holds: none
NoHeld == [options |-> None, html |-> None]

\* nothing has been handed to the engine yet
NoArgs == [given |-> FALSE]

\* no block has been left yet: `reader` is not bound outside a block
NoReader == [bound |-> FALSE]

\* no call is under way: nothing to compare the instance with
NoBefore == [taken |-> FALSE]

\* the instance as a call found it, and whether __exit__ ran on it since
\* the call before
Before(r, exited) == [taken |-> TRUE, reader |-> r, exited |-> exited]

IdleThread ==
    [pc |-> "idle", fn |-> "none", inst |-> 0, n |-> 0, call |-> NoCall,
     k |-> 0, js |-> NoOutcome, out |-> NoOutcome, prev |-> NoPrev,
     left |-> NoReader, before |-> NoBefore, limits |-> <<>>,
     url |-> "", html |-> None, gets |-> <<>>, args |-> NoArgs,
     held |-> NoHeld]

Threads == DOMAIN th

\* a free slot of a heap for thread t: any free slot serves as the identity
\* of a new object; t takes the one of its own number when it is free, the
\* least free one otherwise
FreeSlot(S, t) == IF t \in S THEN t ELSE CHOOSE i \in S : \A j \in S : i <= j

\* one module-level reader instead of a new object per block
AllocInstance_mut(t) == 1

\* one module-level context instead of a new object per initialization
AllocContext_mut(t) == 1

\* Readability(...): a new object, in a slot no live instance occupies
AllocInstance(t) == FreeSlot({i \in InstIds : ~inst[i].live}, t)

\* Context(): a new object, in a slot no live context occupies
AllocContext(t) == FreeSlot({c \in CtxIds : ~ctx[c].live}, t)

\* the context self._context names (None: no live context)
ContextOf(instances, contexts, i) ==
    IF instances[i].live /\ instances[i].context # 0
    THEN contexts[instances[i].context]
    ELSE FreeContext

\* garbage collection: an instance lives while a thread holds it
LiveInstances(instances, threads) ==
    [i \in InstIds |->
        IF \E t \in DOMAIN threads : threads[t].inst = i
        THEN instances[i] ELSE FreeInstance]

\* a context lives while an instance names it
LiveContexts(instances, contexts) ==
    [c \in CtxIds |->
        IF \E i \in InstIds : instances[i].live /\ instances[i].context = c
        THEN contexts[c] ELSE FreeContext]

\* the block kinds a thread may run; a thread that keeps its reader runs
\* "with" alone
BlockKinds ==
    IF mode = "sequential"
    THEN {"with", "parse_html", "is_probably_readerable", "parse_from_url"}
    ELSE IF mode = "reuse" THEN {"with"}
    ELSE {"parse_html", "is_probably_readerable", "parse_from_url"}

\* what requests.get and raise_for_status may do
Nets == {"ok", "request_exception", "http_error", "import_error"}

\* the documents, options and network answers the calls draw from: the
\* specifications of several threads draw from fewer
CallDocs ==
    IF mode \in {"sequential", "reuse"} THEN Docs
    ELSE {ShortDoc, Doc(TRUE, 600, 1, 1)}

CallOptions == IF mode \in {"sequential", "reuse"} THEN OptionsArgs ELSE {None}

CallNets == IF mode = "sequential" THEN Nets ELSE {"ok", "http_error"}

\* the url argument: parse and is_probably_readerable take any string, the
\* empty one by default; parse_from_url takes the address to fetch
CallUrls(m) ==
    IF mode # "sequential" THEN {"https://example.com/a"}
    ELSE IF m = "parse_from_url"
    THEN {"https://example.com/a", "https://example.com/b"}
    ELSE {"", "https://example.com/a"}

\* the method a block calls on its reader
Methods(fn) ==
    CASE fn = "with" -> {"parse", "check"}
      [] fn = "parse_html" -> {"parse"}
      [] fn = "is_probably_readerable" -> {"check"}
      [] fn = "parse_from_url" -> {"parse_from_url"}

\* options = {} when None is given
OptionsOrEmpty(options) == IF options = None THEN Dict(<<>>) ELSE options

\* the wrapper function a method evaluates
EngineFn(m) == IF m = "check" THEN "check" ELSE "parse"

---------------------------------------------------------------------------
(* Actions: the steps of a thread *)

\* parse_from_url: except Exception -> ReadabilityError, a ReadabilityError
\* re-raised
WrapUrl(e) ==
    IF e.k # "raise" \/ e.exc = "ReadabilityError" THEN e
    ELSE Raise("ReadabilityError", "Failed to parse URL", ExcText(e))

\* the outcome of the call as the block sees it
CallOutcome(m, outcome) == IF m = "parse_from_url" THEN WrapUrl(outcome) ELSE outcome

\* the call of thread t ends with `outcome`: control is back in the block
EndCall(t, outcome) ==
    th' = [th EXCEPT ![t].pc = "block", ![t].k = 0,
                     ![t].out = CallOutcome(th[t].call.m, outcome)]

\* `with Readability(...) as reader:` -- the convenience functions build the
\* instance with the default limits
Enter(t) ==
    /\ th[t].pc = "idle"
    /\ \E fn \in BlockKinds :
       \E lim \in (IF fn = "with" THEN LimitArgs
                    ELSE {<<DefaultMemoryLimit, DefaultTimeLimit>>}) :
          LET i == AllocInstance(t) IN
          /\ inst' = [inst EXCEPT ![i] = Readability(lim[1], lim[2])]
          /\ th' = [th EXCEPT ![t].pc = "block", ![t].fn = fn, ![t].inst = i,
                              ![t].n = 0, ![t].left = NoReader,
                              ![t].limits = lim]
    /\ UNCHANGED <<proc, pure, mode, jsdir, ctx>>

\* the last call of a thread and its outcome, kept for comparison with the
\* next one (in the specifications of one thread)
Remembered(thread) ==
    IF mode \in {"sequential", "reuse"}
    THEN [fn |-> thread.fn, call |-> thread.call, out |-> thread.out,
          n |-> thread.n]
    ELSE NoPrev

\* reader.parse(...), reader.is_probably_readerable(...) or
\* reader.parse_from_url(...) is called; the call before it is remembered
Call(t) ==
    /\ th[t].pc = "block"
    /\ th[t].n < (IF th[t].fn = "with" THEN MaxCalls ELSE 1)
    /\ \E m \in Methods(th[t].fn), options \in CallOptions :
       \E net \in (IF m = "parse_from_url" THEN CallNets ELSE {"none"}) :
       \E doc \in (IF net \in {"ok", "none"} THEN CallDocs ELSE {EmptyDoc}) :
       \E url \in CallUrls(m) :
          th' = [th EXCEPT
                   ![t].pc = IF m = "parse_from_url" THEN "fetch" ELSE "init",
                   ![t].url = url,
                   ![t].html = IF m = "parse_from_url" THEN None ELSE doc,
                   ![t].gets = <<>>,
                   ![t].args = NoArgs,
                   ![t].before = Before(inst[th[t].inst], th[t].left.bound),
                   ![t].left = NoReader,
                   ![t].held = [options |-> options,
                                html |-> IF m = "parse_from_url" THEN None
                                         ELSE doc],
                   ![t].n = @ + 1,
                   ![t].call = [m |-> m, doc |-> doc, options |-> options,
                                net |-> net],
                   ![t].out = NoOutcome,
                   ![t].js = NoOutcome,
                   ![t].prev = IF th[t].call.m = "none" THEN @
                               ELSE Remembered(th[t])]
    /\ UNCHANGED <<proc, pure, mode, jsdir, inst, ctx>>

\* parse_from_url when the fetch fails: a RequestException (an HTTP error
\* status is one) becomes a ReadabilityError; after a failed `import
\* requests` the handler `except requests.RequestException` itself names the
\* local the import never bound
fetch_failure(net) ==
    IF net = "import_error"
    THEN Raise("UnboundLocalError", "cannot access local variable",
               PyStr("requests"))
    ELSE Raise("ReadabilityError", "Failed to fetch URL", PyStr(net))

\* parse_from_url asking again when the status check fails
Fetch_mut(t) ==
    /\ th[t].pc = "fetch"
    /\ LET net == th[t].call.net
           gets == IF net = "import_error" THEN th[t].gets
                   ELSE IF net = "http_error"
                   THEN th[t].gets \o <<th[t].url, th[t].url>>
                   ELSE Append(th[t].gets, th[t].url) IN
       IF net = "ok"
       THEN th' = [th EXCEPT ![t].pc = "init", ![t].gets = gets,
                            ![t].html = th[t].call.doc]
       ELSE th' = [th EXCEPT ![t].pc = "block", ![t].gets = gets,
                            ![t].out = fetch_failure(net)]
    /\ UNCHANGED <<proc, pure, mode, jsdir, inst, ctx>>

\* parse_from_url: import requests, requests.get(url), raise_for_status;
\* response.text is the markup the server answers with (call.doc)
Fetch(t) ==
    /\ th[t].pc = "fetch"
    /\ LET net == th[t].call.net
           gets == IF net = "import_error" THEN th[t].gets
                   ELSE Append(th[t].gets, th[t].url) IN
       IF net = "ok"
       THEN th' = [th EXCEPT ![t].pc = "init", ![t].gets = gets,
                            ![t].html = th[t].call.doc]
       ELSE th' = [th EXCEPT ![t].pc = "block", ![t].gets = gets,
                            ![t].out = fetch_failure(net)]
    /\ UNCHANGED <<proc, pure, mode, jsdir, inst, ctx>>

\* _initialize_context: `if self._initialized: return`
InitCheck(t) ==
    /\ th[t].pc = "init"
    /\ th' = [th EXCEPT ![t].pc = IF inst[th[t].inst].initialized
                                  THEN "eval" ELSE "new_context"]
    /\ UNCHANGED <<proc, pure, mode, jsdir, inst, ctx>>

\* _initialize_context setting _initialized as soon as the context exists
NewContext_mut(t) ==
    /\ th[t].pc = "new_context"
    /\ LET c == AllocContext(t)
           instances == [inst EXCEPT ![th[t].inst].context = c,
                                     ![th[t].inst].initialized = TRUE] IN
       /\ inst' = instances
       /\ ctx' = LiveContexts(instances, [ctx EXCEPT ![c] = Context])
    /\ th' = [th EXCEPT ![t].pc = "set_memory_limit"]
    /\ UNCHANGED <<proc, pure, mode, jsdir>>

\* self._context = Context()
NewContext(t) ==
    /\ th[t].pc = "new_context"
    /\ LET c == AllocContext(t)
           instances == [inst EXCEPT ![th[t].inst].context = c] IN
       /\ inst' = instances
       /\ ctx' = LiveContexts(instances, [ctx EXCEPT ![c] = Context])
    /\ th' = [th EXCEPT ![t].pc = "set_memory_limit"]
    /\ UNCHANGED <<proc, pure, mode, jsdir>>

\* self._context.set_memory_limit(self.memory_limit)
SetMemoryLimit(t) ==
    /\ th[t].pc = "set_memory_limit"
    /\ LET i == th[t].inst IN
       IF ContextOf(inst, ctx, i).live
       THEN /\ ctx' = [ctx EXCEPT ![inst[i].context].memory_limit =
                                       inst[i].memory_limit]
            /\ th' = [th EXCEPT ![t].pc = "set_time_limit"]
       ELSE /\ EndCall(t, WrapInit(Raise("AttributeError",
                              "object has no attribute", PyStr("set_memory_limit"))))
            /\ UNCHANGED ctx
    /\ UNCHANGED <<proc, pure, mode, jsdir, inst>>

\* _initialize_context without its set_time_limit call
SetTimeLimit_mut(t) ==
    /\ th[t].pc = "set_time_limit"
    /\ th' = [th EXCEPT ![t].pc = "load", ![t].k = 1]
    /\ UNCHANGED <<proc, pure, mode, jsdir, inst, ctx>>

\* self._context.set_time_limit(self.time_limit)
SetTimeLimit(t) ==
    /\ th[t].pc = "set_time_limit"
    /\ LET i == th[t].inst IN
       IF ContextOf(inst, ctx, i).live
       THEN /\ ctx' = [ctx EXCEPT ![inst[i].context].time_limit =
                                       inst[i].time_limit]
            /\ th' = [th EXCEPT ![t].pc = "load", ![t].k = 1]
       ELSE /\ EndCall(t, WrapInit(Raise("AttributeError",
                              "object has no attribute", PyStr("set_time_limit"))))
            /\ UNCHANGED ctx
    /\ UNCHANGED <<proc, pure, mode, jsdir, inst>>

\* one turn of the loop over js_files: _load_js_file, then Context.eval
LoadFile(t) ==
    /\ th[t].pc = "load"
    /\ LET i == th[t].inst
           file == js_files[th[t].k]
           c == ContextOf(inst, ctx, i)
           r == IF file \notin jsdir
                THEN Raise("ReadabilityError", "JavaScript file not found",
                           PyStr(file))
                ELSE IF ~c.live
                THEN Raise("AttributeError", "object has no attribute",
                           PyStr("eval"))
                ELSE Context_eval_file(c, file) IN
       IF r.k = "raise"
       THEN /\ EndCall(t, WrapInit(r))
            /\ UNCHANGED ctx
       ELSE /\ ctx' = [ctx EXCEPT ![inst[i].context] = r.v]
            /\ th' = [th EXCEPT ![t].pc = IF th[t].k = Len(js_files)
                                          THEN "mark" ELSE "load",
                                ![t].k = @ + 1]
    /\ UNCHANGED <<proc, pure, mode, jsdir, inst>>

\* self._initialized = True
MarkInitialized(t) ==
    /\ th[t].pc = "mark"
    /\ inst' = [inst EXCEPT ![th[t].inst].initialized = TRUE]
    /\ th' = [th EXCEPT ![t].pc = "eval", ![t].k = 0]
    /\ UNCHANGED <<proc, pure, mode, jsdir, ctx>>

\* parse storing the url among the options it was given
js_arguments_mut(html, url, options) ==
    LET filled == IF options = None THEN Dict([url |-> PyStr(url)])
                  ELSE Dict([key \in DOMAIN options.v \cup {"url"} |->
                                IF key = "url" THEN PyStr(url)
                                ELSE options.v[key]]) IN
    [html |-> html, url |-> url, options |-> filled,
     held |-> [options |-> IF options = None THEN None ELSE filled,
               html |-> html]]

\* parse up to its js_code: `options = {}` binds a new dict to the local
\* name when None was given, and json.dumps reads html_content, url and
\* options.  html, url, options: what goes into the JS code; held: the
\* caller's objects afterwards.
js_arguments(html, url, options) ==
    [html |-> html, url |-> url, options |-> OptionsOrEmpty(options),
     held |-> [options |-> options, html |-> html]]

\* js_result = self._context.eval(js_code)
Eval(t) ==
    /\ th[t].pc = "eval"
    /\ LET a == js_arguments(th[t].html, th[t].url, th[t].call.options) IN
       th' = [th EXCEPT
                ![t].pc = "convert",
                ![t].args = [given |-> TRUE, html |-> a.html, url |-> a.url,
                             options |-> a.options],
                ![t].held = IF th[t].call.m = "parse_from_url"
                            THEN [a.held EXCEPT !.html = None] ELSE a.held,
                ![t].js = Context_eval(ContextOf(inst, ctx, th[t].inst),
                                       EngineFn(th[t].call.m), a.html,
                                       a.options)]
    /\ UNCHANGED <<proc, pure, mode, jsdir, inst, ctx>>

\* parse and is_probably_readerable dropping the context when they raise
Convert_mut(t) ==
    /\ th[t].pc = "convert"
    /\ LET i == th[t].inst
           outcome == finish_call(EngineFn(th[t].call.m),
                                  ContextOf(inst, ctx, i), th[t].js, th[t].html)
           instances == IF outcome.k = "raise"
                        THEN [inst EXCEPT ![i].context = 0,
                                          ![i].initialized = FALSE]
                        ELSE inst IN
       /\ EndCall(t, outcome)
       /\ inst' = instances
       /\ ctx' = LiveContexts(instances, ctx)
    /\ UNCHANGED <<proc, pure, mode, jsdir>>

\* the rest of the call: _convert_js_result, the success test, the result
Convert(t) ==
    /\ th[t].pc = "convert"
    /\ EndCall(t, finish_call(EngineFn(th[t].call.m),
                              ContextOf(inst, ctx, th[t].inst),
                              th[t].js, th[t].html))
    /\ UNCHANGED <<proc, pure, mode, jsdir, inst, ctx>>

\* __exit__ dropping the context and leaving _initialized as it is
exit_flag_mut(r) ==
    IF r.context # 0 THEN [r EXCEPT !.context = 0] ELSE r

\* __exit__ testing `self._initialized` where the code tests `self._context`
exit_mut(r) ==
    IF r.initialized THEN [r EXCEPT !.context = 0, !.initialized = FALSE] ELSE r

\* Readability.__exit__: the reader as the block leaves it
exit(r) ==
    IF r.context # 0 THEN [r EXCEPT !.context = 0, !.initialized = FALSE] ELSE r

\* Readability.__exit__, as the block is left: a convenience function leaves
\* it when its call has returned or raised.  `reader` stays bound to the
\* instance after the block; what it then shows is kept in `left`.
Exit(t) ==
    /\ th[t].pc = "block"
    /\ th[t].fn = "with" \/ th[t].n = 1
    /\ LET i == th[t].inst
           threads == [th EXCEPT ![t].pc = "idle", ![t].inst = 0,
                                 ![t].call = NoCall, ![t].out = NoOutcome,
                                 ![t].js = NoOutcome, ![t].limits = <<>>,
                                 ![t].url = "", ![t].html = None,
                                 ![t].gets = <<>>, ![t].args = NoArgs,
                                 ![t].held = NoHeld,
                                 ![t].before = NoBefore,
                                 ![t].prev = IF th[t].call.m = "none" THEN @
                                             ELSE Remembered(th[t]),
                                 ![t].left =
                                     [bound |-> TRUE,
                                      context |-> exit(inst[i]).context,
                                      initialized |-> exit(inst[i]).initialized]]
           cleared == [inst EXCEPT ![i] = exit(inst[i])]
           instances == LiveInstances(cleared, threads) IN
       /\ th' = threads
       /\ inst' = instances
       /\ ctx' = LiveContexts(instances, ctx)
    /\ UNCHANGED <<proc, pure, mode, jsdir>>

\* reader.__exit__(None, None, None) between two calls -- called by hand,
\* or by the end of a `with reader:` block the reader outlives
Cleanup(t) ==
    /\ th[t].pc = "block"
    /\ LET i == th[t].inst
           instances == [inst EXCEPT ![i] = exit(inst[i])] IN
       /\ inst' = instances
       /\ ctx' = LiveContexts(instances, ctx)
       /\ th' = [th EXCEPT ![t].left =
                     [bound |-> TRUE,
                      context |-> instances[i].context,
                      initialized |-> instances[i].initialized]]
    /\ UNCHANGED <<proc, pure, mode, jsdir>>

Next ==
    \/ \E t \in Threads : Enter(t)
    \/ \E t \in Threads : Call(t)
    \/ \E t \in Threads : Fetch(t)
    \/ \E t \in Threads : InitCheck(t)
    \/ \E t \in Threads : NewContext(t)
    \/ \E t \in Threads : SetMemoryLimit(t)
    \/ \E t \in Threads : SetTimeLimit(t)
    \/ \E t \in Threads : LoadFile(t)
    \/ \E t \in Threads : MarkInitialized(t)
    \/ \E t \in Threads : Eval(t)
    \/ \E t \in Threads : Convert(t)
    \/ \E t \in Threads : Exit(t)

InitHeaps ==
    /\ jsdir \in JsDirs
    /\ pure = NoPure
    /\ proc = NoProc
    /\ inst = [i \in InstIds |-> FreeInstance]
    /\ ctx = [c \in CtxIds |-> FreeContext]

\* one thread
Init ==
    /\ mode = "sequential"
    /\ th = [t \in 1..1 |-> IdleThread]
    /\ InitHeaps

\* one thread that keeps its reader: it constructs a Readability and then
\* calls parse, is_probably_readerable and __exit__ on it in any order
InitReuse ==
    /\ mode = "reuse"
    /\ th = [t \in 1..1 |-> IdleThread]
    /\ InitHeaps

NextReuse ==
    \/ \E t \in Threads : Enter(t)
    \/ \E t \in Threads : Call(t)
    \/ \E t \in Threads : InitCheck(t)
    \/ \E t \in Threads : NewContext(t)
    \/ \E t \in Threads : SetMemoryLimit(t)
    \/ \E t \in Threads : SetTimeLimit(t)
    \/ \E t \in Threads : LoadFile(t)
    \/ \E t \in Threads : MarkInitialized(t)
    \/ \E t \in Threads : Eval(t)
    \/ \E t \in Threads : Convert(t)
    \/ \E t \in Threads : Cleanup(t)

\* NThreads threads that share one reader, constructed before they start:
\* each calls parse and is_probably_readerable on it, and the statements of
\* their calls interleave
InitShared ==
    /\ mode = "shared"
    /\ jsdir \in JsDirs
    /\ pure = NoPure
    /\ proc = NoProc
    /\ ctx = [c \in CtxIds |-> FreeContext]
    /\ \E lim \in LimitArgs :
          /\ inst = [i \in InstIds |->
                        IF i = 1 THEN Readability(lim[1], lim[2])
                        ELSE FreeInstance]
          /\ th = [t \in 1..NThreads |->
                      [IdleThread EXCEPT !.pc = "block", !.fn = "with",
                                         !.inst = 1, !.limits = lim]]

NextShared ==
    \/ \E t \in Threads : Call(t)
    \/ \E t \in Threads : InitCheck(t)
    \/ \E t \in Threads : NewContext(t)
    \/ \E t \in Threads : SetMemoryLimit(t)
    \/ \E t \in Threads : SetTimeLimit(t)
    \/ \E t \in Threads : LoadFile(t)
    \/ \E t \in Threads : MarkInitialized(t)
    \/ \E t \in Threads : Eval(t)
    \/ \E t \in Threads : Convert(t)

\* NThreads threads calling the convenience functions
InitConcurrent ==
    /\ mode = "concurrent"
    /\ th = [t \in 1..NThreads |-> IdleThread]
    /\ InitHeaps

\* the dicts from_dict is applied to: any of the keys readability.js writes
\* and of the Python field names that differ from them, each holding a value
\* of its own; and None
ArticleKeys ==
    {"title", "content", "textContent", "length", "excerpt", "byline", "dir",
     "siteName", "lang", "publishedTime"}

FieldNames == {"text_content", "site_name", "published_time"}

ValueAt(key) == IF key = "length" THEN PyInt(100) ELSE PyStr(key)

FromDictArgs ==
    {None} \cup {Dict([key \in keys |-> ValueAt(key)]) :
                     keys \in SUBSET (ArticleKeys \cup FieldNames)}

\* utils.get_default_options()
get_default_options ==
    Dict([debug |-> PyBool(FALSE),
          maxElemsToParse |-> PyInt(0),
          nbTopCandidates |-> PyInt(5),
          charThreshold |-> PyInt(DefaultCharThreshold),
          classesToPreserve |-> PyList(<<>>),
          keepClasses |-> PyBool(FALSE),
          disableJSONLD |-> PyBool(FALSE),
          allowedVideoRegex |-> None,
          linkDensityModifier |-> PyInt(0)])

\* a keyword argument of a call, or the default of the parameter
Param(kwargs, name, default) ==
    IF name \in DOMAIN kwargs THEN kwargs[name] ELSE default

\* create_custom_options putting the debug argument under keepClasses
create_custom_options_mut(kwargs) ==
    Dict([debug |-> Param(kwargs, "debug", PyBool(FALSE)),
          maxElemsToParse |-> Param(kwargs, "max_elems_to_parse", PyInt(0)),
          nbTopCandidates |-> Param(kwargs, "nb_top_candidates", PyInt(5)),
          charThreshold |-> Param(kwargs, "char_threshold", PyInt(500)),
          classesToPreserve |->
              IF Param(kwargs, "classes_to_preserve", None) = None
              THEN PyList(<<>>) ELSE kwargs["classes_to_preserve"],
          keepClasses |-> Param(kwargs, "debug", PyBool(FALSE)),
          disableJSONLD |-> Param(kwargs, "disable_json_ld", PyBool(FALSE)),
          linkDensityModifier |-> Param(kwargs, "link_density_modifier", PyFloat(0))])

\* utils.create_custom_options(**kwargs)
create_custom_options(kwargs) ==
    Dict([debug |-> Param(kwargs, "debug", PyBool(FALSE)),
          maxElemsToParse |-> Param(kwargs, "max_elems_to_parse", PyInt(0)),
          nbTopCandidates |-> Param(kwargs, "nb_top_candidates", PyInt(5)),
          charThreshold |-> Param(kwargs, "char_threshold", PyInt(500)),
          classesToPreserve |->
              IF Param(kwargs, "classes_to_preserve", None) = None
              THEN PyList(<<>>) ELSE kwargs["classes_to_preserve"],
          keepClasses |-> Param(kwargs, "keep_classes", PyBool(FALSE)),
          disableJSONLD |-> Param(kwargs, "disable_json_ld", PyBool(FALSE)),
          linkDensityModifier |-> Param(kwargs, "link_density_modifier", PyFloat(0))])

\* the values a caller gives the parameters of create_custom_options
CustomValues ==
    [char_threshold |-> PyInt(200),
     keep_classes |-> PyBool(TRUE),
     classes_to_preserve |-> PyList(<<"article", "content">>),
     max_elems_to_parse |-> PyInt(1000),
     nb_top_candidates |-> PyInt(3),
     debug |-> PyBool(TRUE),
     disable_json_ld |-> PyBool(TRUE),
     link_density_modifier |-> PyFloat(5)]

\* the calls of create_custom_options: any of the parameters given, and
\* classes_to_preserve given as a list or as None
CustomOptionsArgs ==
    {[n \in names |-> IF n = "classes_to_preserve" THEN classes
                      ELSE CustomValues[n]] :
        names \in SUBSET DOMAIN CustomValues,
        classes \in {None, CustomValues["classes_to_preserve"]}}

\* a function about to be applied to its argument
Apply(fn, arg) == [fn |-> fn, arg |-> arg, out |-> NoOutcome]

\* ReadabilityResult.from_dict(data) is called
FromDictCall ==
    /\ pure.fn = "from_dict"
    /\ pure.out = NoOutcome
    /\ pure' = [pure EXCEPT !.out = from_dict(pure.arg)]
    /\ UNCHANGED <<proc, mode, jsdir, inst, ctx, th>>

\* the functions that read no state, each about to be applied to one of
\* its arguments
InitPure ==
    /\ mode = "pure"
    /\ jsdir = {js_files[k] : k \in 1..Len(js_files)}
    /\ inst = [i \in InstIds |-> FreeInstance]
    /\ ctx = [c \in CtxIds |-> FreeContext]
    /\ th = [t \in {} |-> IdleThread]
    /\ proc = NoProc
    /\ pure \in {Apply("from_dict", data) : data \in FromDictArgs}
              \cup {Apply("create_custom_options", kwargs) :
                        kwargs \in CustomOptionsArgs}
              \cup {Apply("get_default_options", <<>>)}

\* utils.create_custom_options(**kwargs) is called
CreateCustomOptionsCall ==
    /\ pure.fn = "create_custom_options"
    /\ pure.out = NoOutcome
    /\ pure' = [pure EXCEPT !.out = Return(create_custom_options(pure.arg))]
    /\ UNCHANGED <<proc, mode, jsdir, inst, ctx, th>>

\* utils.get_default_options() is called
GetDefaultOptionsCall ==
    /\ pure.fn = "get_default_options"
    /\ pure.out = NoOutcome
    /\ pure' = [pure EXCEPT !.out = Return(get_default_options)]
    /\ UNCHANGED <<proc, mode, jsdir, inst, ctx, th>>

NextPure ==
    \/ FromDictCall
    \/ CreateCustomOptionsCall
    \/ GetDefaultOptionsCall

---------------------------------------------------------------------------
(* cli.main: one process, one reader, one call *)

\* x or default
PyOr(x, default) == IF Truthy(x) THEN x ELSE default

\* main testing --text-only before --title-only
format_result_mut(args, result) ==
    IF args.text_only THEN PyOr(result.text_content, PyStr(""))
    ELSE IF args.title_only THEN PyOr(result.title, PyStr(""))
    ELSE IF args.json
    THEN Dict([title |-> result.title, content |-> result.content,
               textContent |-> result.text_content, length |-> result.length,
               excerpt |-> result.excerpt, byline |-> result.byline,
               dir |-> result.dir, siteName |-> result.site_name,
               lang |-> result.lang, publishedTime |-> result.published_time])
    ELSE PyList(
        (IF Truthy(result.title) THEN <<<<"Title: ", result.title>>>> ELSE <<>>)
        \o (IF Truthy(result.byline) THEN <<<<"Author: ", result.byline>>>> ELSE <<>>)
        \o (IF Truthy(result.published_time)
            THEN <<<<"Published: ", result.published_time>>>> ELSE <<>>)
        \o (IF Truthy(result.site_name) THEN <<<<"Site: ", result.site_name>>>> ELSE <<>>)
        \o (IF Truthy(result.length) THEN <<<<"Length: ", result.length>>>> ELSE <<>>)
        \o <<<<"", PyStr("")>>>>
        \o (IF Truthy(result.excerpt)
            THEN <<<<"Excerpt: ", result.excerpt>>, <<"", PyStr("")>>>> ELSE <<>>)
        \o (IF Truthy(result.text_content)
            THEN <<<<"Content:", PyStr("")>>, <<"-", PyInt(40)>>,
                   <<"", result.text_content>>>>
            ELSE <<>>))

\* the text main writes for a parsed article (cli.py 219-266); the default
\* format is a list of lines, each a label and the value printed after it
format_result(args, result) ==
    IF args.title_only THEN PyOr(result.title, PyStr(""))
    ELSE IF args.text_only THEN PyOr(result.text_content, PyStr(""))
    ELSE IF args.json
    THEN Dict([title |-> result.title, content |-> result.content,
               textContent |-> result.text_content, length |-> result.length,
               excerpt |-> result.excerpt, byline |-> result.byline,
               dir |-> result.dir, siteName |-> result.site_name,
               lang |-> result.lang, publishedTime |-> result.published_time])
    ELSE PyList(
        (IF Truthy(result.title) THEN <<<<"Title: ", result.title>>>> ELSE <<>>)
        \o (IF Truthy(result.byline) THEN <<<<"Author: ", result.byline>>>> ELSE <<>>)
        \o (IF Truthy(result.published_time)
            THEN <<<<"Published: ", result.published_time>>>> ELSE <<>>)
        \o (IF Truthy(result.site_name) THEN <<<<"Site: ", result.site_name>>>> ELSE <<>>)
        \o (IF Truthy(result.length) THEN <<<<"Length: ", result.length>>>> ELSE <<>>)
        \o <<<<"", PyStr("")>>>>
        \o (IF Truthy(result.excerpt)
            THEN <<<<"Excerpt: ", result.excerpt>>, <<"", PyStr("")>>>> ELSE <<>>)
        \o (IF Truthy(result.text_content)
            THEN <<<<"Content:", PyStr("")>>, <<"-", PyInt(40)>>,
                   <<"", result.text_content>>>>
            ELSE <<>>))

\* the text main writes for the answer of the pre-check (cli.py 206-210)
format_check(args, is_readerable) ==
    IF args.json THEN Dict([readerable |-> is_readerable])
    ELSE IF Truthy(is_readerable) THEN PyStr("yes") ELSE PyStr("no")

\* what leaves the with-block of main
SystemExit(code) == [k |-> "exit", code |-> code]

\* the handlers of main catching the exit of --check like any exception
main_handlers_catch_mut(leaving, debug) ==
    IF leaving.k = "none" THEN [status |-> 0, stderr |-> "none"]
    ELSE IF leaving.k = "raise" /\ leaving.exc = "ReadabilityError"
    THEN [status |-> 1, stderr |-> "Error"]
    ELSE [status |-> 1, stderr |-> IF debug THEN "traceback" ELSE "Unexpected error"]

\* the last handler of main exiting only when it has printed the message
main_handlers_debug_mut(leaving, debug) ==
    IF leaving.k = "none" THEN [status |-> 0, stderr |-> "none"]
    ELSE IF leaving.k = "exit" THEN [status |-> leaving.code, stderr |-> "none"]
    ELSE IF leaving.exc = "ReadabilityError" THEN [status |-> 1, stderr |-> "Error"]
    ELSE IF debug THEN [status |-> 0, stderr |-> "traceback"]
    ELSE [status |-> 1, stderr |-> "Unexpected error"]

\* the handler of ReadabilityError printing the message and not exiting
main_handlers_status_mut(leaving, debug) ==
    IF leaving.k = "none" THEN [status |-> 0, stderr |-> "none"]
    ELSE IF leaving.k = "exit" THEN [status |-> leaving.code, stderr |-> "none"]
    ELSE IF leaving.exc = "ReadabilityError" THEN [status |-> 0, stderr |-> "Error"]
    ELSE IF leaving.exc = "KeyboardInterrupt"
    THEN [status |-> 1, stderr |-> "Interrupted"]
    ELSE [status |-> 1, stderr |-> IF debug THEN "traceback" ELSE "Unexpected error"]

\* the handlers of main (cli.py 268-280) and the end of the process: a
\* SystemExit passes them, being no Exception
main_handlers(leaving, debug) ==
    IF leaving.k = "none" THEN [status |-> 0, stderr |-> "none"]
    ELSE IF leaving.k = "exit" THEN [status |-> leaving.code, stderr |-> "none"]
    ELSE IF leaving.exc = "ReadabilityError" THEN [status |-> 1, stderr |-> "Error"]
    ELSE IF leaving.exc = "KeyboardInterrupt"
    THEN [status |-> 1, stderr |-> "Interrupted"]
    ELSE [status |-> 1, stderr |-> IF debug THEN "traceback" ELSE "Unexpected error"]

\* parse_args: the command lines; the output flags exclude none of each
\* other
CliArgs ==
    {a \in [input : {"file", "url", "stdin"},
            check : BOOLEAN, json : BOOLEAN,
            title_only : BOOLEAN, text_only : BOOLEAN,
            output : {"stdout", "file"},
            debug : BOOLEAN,
            char_threshold : {DefaultCharThreshold, 50},
            keep_classes : {FALSE}, max_elems : {0},
            memory_limit : {DefaultMemoryLimit, 25},
            time_limit : {DefaultTimeLimit, 5}] :
        a.memory_limit = DefaultMemoryLimit <=> a.time_limit = DefaultTimeLimit}

\* what the process meets: whether its input can be read, the markup read,
\* whether its output destination can be written
CliEnvs ==
    {e \in [read : {"ok", "error"},
            doc : {InvalidDoc, EmptyDoc, ShortDoc, Doc(TRUE, 600, 1, 1),
                   Doc(TRUE, 600, 7, 1)},
            write : {"ok", "error"}] :
        e.read = "error" => (e.doc = EmptyDoc /\ e.write = "ok")}

NoRun == [run |-> 0]

\* the process as main starts
InitialProc(args, env) ==
    [pc |-> "start", run |-> 1, args |-> args, env |-> env,
     stdout |-> None, file |-> None, writes |-> 0, stderr |-> "none",
     status |-> None,
     result |-> NoOutcome, leaving |-> NoOutcome, first |-> NoRun]

\* read_input(args): a file that cannot be read, a URL that cannot be
\* fetched and an interrupted stdin end the process with status 1
CliReadInput ==
    /\ proc.pc = "start"
    /\ IF proc.env.read = "ok"
       THEN proc' = [proc EXCEPT !.pc = "enter"]
       ELSE proc' = [proc EXCEPT !.pc = "exited", !.status = PyInt(1),
                                 !.stderr = "Error reading input"]
    /\ UNCHANGED <<mode, jsdir, inst, ctx, th, pure>>

\* main from create_custom_options to the call of the reader's method
\* inside `with Readability(...) as reader`
CliEnter ==
    /\ proc.pc = "enter"
    /\ LET a == proc.args
           options == create_custom_options(
                          [char_threshold |-> PyInt(a.char_threshold),
                           keep_classes |-> PyBool(a.keep_classes),
                           max_elems_to_parse |-> PyInt(a.max_elems),
                           debug |-> PyBool(a.debug)])
           i == AllocInstance(1) IN
       /\ inst' = [inst EXCEPT ![i] = Readability(a.memory_limit, a.time_limit)]
       /\ th' = [th EXCEPT ![1] =
                    [IdleThread EXCEPT
                        !.pc = "init", !.fn = "cli", !.inst = i, !.n = 1,
                        !.limits = <<a.memory_limit, a.time_limit>>,
                        !.call = [m |-> IF a.check THEN "check" ELSE "parse",
                                  doc |-> proc.env.doc, options |-> options,
                                  net |-> "none"],
                        !.url = IF a.input = "url" THEN "https://example.com/a"
                                ELSE "",
                        !.html = proc.env.doc,
                        !.before = Before(Readability(a.memory_limit,
                                                      a.time_limit), FALSE),
                        !.held = [options |-> options, html |-> proc.env.doc]]]
    /\ proc' = [proc EXCEPT !.pc = "reader"]
    /\ UNCHANGED <<mode, jsdir, ctx, pure>>

\* the method has returned: main formats what it returned and calls
\* write_output; with --check it then calls sys.exit.  A file that cannot be
\* written makes write_output call sys.exit(1); a broken stdout makes print
\* raise.
CliWrite ==
    /\ proc.pc = "reader"
    /\ th[1].pc = "block"
    /\ th[1].out.k = "return"
    /\ LET a == proc.args
           value == th[1].out.v
           content == IF a.check THEN format_check(a, value)
                      ELSE format_result(a, value) IN
       proc' = [proc EXCEPT
                  !.pc = "leave",
                  !.result = th[1].out,
                  !.writes = @ + 1,
                  !.stdout = IF a.output = "stdout" /\ proc.env.write = "ok"
                             THEN content ELSE @,
                  !.file = IF a.output = "file" /\ proc.env.write = "ok"
                           THEN content ELSE @,
                  !.stderr = IF a.output = "file" /\ proc.env.write = "error"
                             THEN "Error writing to file" ELSE @,
                  !.leaving =
                      IF proc.env.write = "error"
                      THEN (IF a.output = "file" THEN SystemExit(1)
                            ELSE Raise("BrokenPipeError", "Broken pipe",
                                       PyStr("stdout")))
                      ELSE IF a.check
                      THEN SystemExit(IF Truthy(value) THEN 0 ELSE 1)
                      ELSE NoOutcome]
    /\ UNCHANGED <<mode, jsdir, inst, ctx, th, pure>>

\* the with-block is left -- by the exception of the method, by what
\* CliWrite left pending, or at its end: __exit__, the handlers of main, the
\* end of the process
CliLeave ==
    /\ th[1].pc = "block"
    /\ \/ proc.pc = "leave"
       \/ proc.pc = "reader" /\ th[1].out.k = "raise"
    /\ LET leaving == IF proc.pc = "leave" THEN proc.leaving ELSE th[1].out
           handled == main_handlers(leaving, proc.args.debug)
           i == th[1].inst
           threads == [th EXCEPT ![1] =
                          [IdleThread EXCEPT
                              !.left = [bound |-> TRUE,
                                        context |-> exit(inst[i]).context,
                                        initialized |-> exit(inst[i]).initialized]]]
           instances == LiveInstances([inst EXCEPT ![i] = exit(inst[i])], threads) IN
       /\ th' = threads
       /\ inst' = instances
       /\ ctx' = LiveContexts(instances, ctx)
       /\ proc' = [proc EXCEPT
                     !.pc = "exited",
                     !.result = IF proc.pc = "leave" THEN @ ELSE th[1].out,
                     !.leaving = leaving,
                     !.status = PyInt(handled.status),
                     !.stderr = IF handled.stderr = "none" THEN @
                                ELSE handled.stderr]
    /\ UNCHANGED <<mode, jsdir, pure>>

\* the same command line is run again in the same environment, with
\* --debug given if it was not and left out if it was; what the first run
\* produced is kept
CliRerun ==
    /\ proc.pc = "exited"
    /\ proc.run = 1
    /\ proc' = [InitialProc([proc.args EXCEPT !.debug = ~@], proc.env) EXCEPT
                  !.run = 2,
                  !.first = [run |-> 1, status |-> proc.status,
                             stdout |-> proc.stdout, file |-> proc.file,
                             result |-> proc.result]]
    /\ UNCHANGED <<mode, jsdir, inst, ctx, th, pure>>

InitCli ==
    /\ mode = "cli"
    /\ jsdir \in {{js_files[k] : k \in 1..Len(js_files)},
                  {js_files[k] : k \in 1..Len(js_files)} \ {"Readability.js"}}
    /\ inst = [i \in InstIds |-> FreeInstance]
    /\ ctx = [c \in CtxIds |-> FreeContext]
    /\ th = [t \in 1..1 |-> IdleThread]
    /\ pure = NoPure
    /\ proc \in {InitialProc(a, e) : a \in CliArgs, e \in CliEnvs}

NextCli ==
    \/ CliReadInput
    \/ CliEnter
    \/ \E t \in Threads : InitCheck(t)
    \/ \E t \in Threads : NewContext(t)
    \/ \E t \in Threads : SetMemoryLimit(t)
    \/ \E t \in Threads : SetTimeLimit(t)
    \/ \E t \in Threads : LoadFile(t)
    \/ \E t \in Threads : MarkInitialized(t)
    \/ \E t \in Threads : Eval(t)
    \/ \E t \in Threads : Convert(t)
    \/ CliWrite
    \/ CliLeave
    \/ CliRerun

Spec == Init /\ [][Next]_vars

SpecCli == InitCli /\ [][NextCli]_vars

SpecPure == InitPure /\ [][NextPure]_vars

SpecConcurrent == InitConcurrent /\ [][Next]_vars

SpecReuse == InitReuse /\ [][NextReuse]_vars

SpecShared == InitShared /\ [][NextShared]_vars

---------------------------------------------------------------------------
(* What the claims speak of *)

\* the call of thread t has returned or raised, and the block has not gone on
Done(t) == th[t].pc = "block" /\ th[t].out.k # "none"

\* the call of thread t ran Readability.parse / is_probably_readerable as
\* its own method call (not inside parse_from_url)
IsParse(t) == th[t].call.m = "parse"

IsCheck(t) == th[t].call.m = "check"

\* the context of the instance thread t holds
ContextOfThread(t) == ContextOf(inst, ctx, th[t].inst)

\* the call before this one was made in the same with-block, on the same
\* instance
SameInstanceBefore(t) ==
    th[t].fn = "with" /\ th[t].n >= 2 /\ th[t].prev.fn = "with"

\* the call before this one was made by the same convenience function
SameFunctionBefore(t) ==
    th[t].fn # "with" /\ th[t].prev.fn = th[t].fn

\* the JS evaluation of the call raised
EvalRaised(t) == th[t].js.k = "raise"

\* the JS evaluation returned a reply
Replied(t) == th[t].js.k = "return"

\* the reply reports failure: success false or missing
ReplyFailed(t) ==
    /\ Replied(t)
    /\ \/ "success" \notin DOMAIN th[t].js.v.v
       \/ ~Truthy(th[t].js.v.v["success"])

\* JSON.stringify of the reply runs out of heap: the conversion raises
ConversionRaised(t) ==
    /\ Replied(t)
    /\ ~Fits(ContextOfThread(t), StringifyMem(th[t].js.v, th[t].call.doc))

\* the reply reports success with a null or empty article
ReplyEmptyArticle(t) ==
    /\ Replied(t)
    /\ ~ReplyFailed(t)
    /\ \/ "result" \notin DOMAIN th[t].js.v.v
       \/ ~Truthy(ToPython(th[t].js.v.v["result"]))

\* the call ended in a ReadabilityError
RaisedReadabilityError(t) ==
    th[t].out.k = "raise" /\ th[t].out.exc = "ReadabilityError"

\* _initialize_context failed in the call
InitFailed(t) ==
    /\ RaisedReadabilityError(t)
    /\ th[t].out.msg = "Failed to initialize JavaScript context"

\* what the run of the call needs is over a budget given to the instance:
\* seconds over time_limit, or MB (the loaded files, the document, the copy
\* JSON.stringify makes of an article) over memory_limit
OverBudget(t) ==
    LET doc == th[t].call.doc
        r == inst[th[t].inst] IN
    \/ doc.work > r.time_limit
    \/ Len(js_files) + doc.mem > r.memory_limit
    \/ /\ Replied(t)
       /\ Len(js_files) + StringifyMem(th[t].js.v, doc) > r.memory_limit

---------------------------------------------------------------------------
(* C1 *)

\* C1: a parse call that repeats the call made just before it -- on the
\* same Readability instance, or through parse_html again -- ends as that
\* call ended: with an equal ReadabilityResult, or with the same error.
C1_ParseIdempotent ==
    \A t \in Threads :
        ( /\ Done(t)
          /\ th[t].fn \in {"with", "parse_html"}
          /\ IsParse(t)
          /\ SameInstanceBefore(t) \/ SameFunctionBefore(t)
          /\ th[t].prev.call = th[t].call )
        => th[t].out = th[t].prev.out

\* a second parse on the same instance, its context reused, returned an
\* article equal to the first
C1_Witness ==
    \E t \in Threads :
        /\ Done(t) /\ IsParse(t) /\ SameInstanceBefore(t)
        /\ th[t].prev.call = th[t].call
        /\ th[t].out.k = "return"
        /\ th[t].out.v.title # None
        /\ th[t].out = th[t].prev.out

---------------------------------------------------------------------------
(* C2 *)

\* C2: when the reply has success false or missing, or the JS evaluation
\* or the conversion of the reply raises, parse raises ReadabilityError and
\* returns no ReadabilityResult.
C2_FailureReturnsNoResult ==
    \A t \in Threads :
        ( /\ Done(t)
          /\ IsParse(t)
          /\ EvalRaised(t) \/ ReplyFailed(t) \/ ConversionRaised(t) )
        => RaisedReadabilityError(t)

\* a parse whose reply reported failure has raised ReadabilityError
C2_Witness ==
    \E t \in Threads :
        /\ Done(t) /\ IsParse(t) /\ ReplyFailed(t)
        /\ RaisedReadabilityError(t)
        /\ th[t].out.msg = "JavaScript parsing failed"

---------------------------------------------------------------------------
(* C3 *)

---------------------------------------------------------------------------
(* C4 *)

\* C4: whatever parse or is_probably_readerable raises is a
\* ReadabilityError: a missing JS file, a failed load, a JS evaluation
\* error, a failed conversion, a reported failure.
C4_OnlyReadabilityErrorEscapes ==
    \A t \in Threads :
        (Done(t) /\ (IsParse(t) \/ IsCheck(t)) /\ th[t].out.k = "raise")
        => th[t].out.exc = "ReadabilityError"

\* a JS evaluation error (the interrupt of the time limit) has surfaced as
\* the ReadabilityError of parse's handler
C4_Witness ==
    \E t \in Threads :
        /\ Done(t) /\ IsParse(t) /\ EvalRaised(t)
        /\ RaisedReadabilityError(t)
        /\ th[t].out.msg = "Failed to parse HTML content"

---------------------------------------------------------------------------
(* C5 *)

\* C5 as stated: is_probably_readerable returns True or False, and fails
\* only when a budget is exceeded.
C5_BooleanOrExhausted ==
    \A t \in Threads :
        (Done(t) /\ IsCheck(t)) =>
            \/ th[t].out.k = "return" /\ th[t].out.v.t = "bool"
            \/ th[t].out.k = "raise" /\ OverBudget(t)

\* C5, amended: what is_probably_readerable returns is exactly True or
\* False; it fails, raising ReadabilityError and returning nothing, when a
\* budget is exceeded and also when the JS context cannot be initialized
\* (a JS source file is missing), and in no other case.
C5_BooleanOrReadabilityError ==
    \A t \in Threads :
        (Done(t) /\ IsCheck(t)) =>
            /\ th[t].out.k = "return" => th[t].out.v.t = "bool"
            /\ th[t].out.k = "raise" =>
                   /\ RaisedReadabilityError(t)
                   /\ OverBudget(t) \/ InitFailed(t)
            /\ (InitFailed(t) \/ EvalRaised(t) \/ ReplyFailed(t))
                   => th[t].out.k = "raise"

\* with a JS source file missing, the pre-check has raised ReadabilityError
\* within every budget
C5_Witness ==
    \E t \in Threads :
        /\ Done(t) /\ IsCheck(t)
        /\ jsdir # {js_files[k] : k \in 1..Len(js_files)}
        /\ ~OverBudget(t)
        /\ InitFailed(t)

---------------------------------------------------------------------------
(* C6 *)

\* a thread is about to evaluate JS on the context of its instance
Evaluating(t) == th[t].pc \in {"load", "eval", "convert"}

\* C6: every JS evaluation of a call runs on a context that carries the
\* instance's memory_limit and time_limit, and a run that needs more than
\* either budget ends in ReadabilityError, not in a result or a boolean.
C6_BudgetsEnforced ==
    \A t \in Threads :
        /\ Evaluating(t) =>
               /\ ContextOfThread(t).live
               /\ ContextOfThread(t).memory_limit = inst[th[t].inst].memory_limit
               /\ ContextOfThread(t).time_limit = inst[th[t].inst].time_limit
        /\ (Done(t) /\ (IsParse(t) \/ IsCheck(t)) /\ OverBudget(t))
               => RaisedReadabilityError(t)

\* a parse that needed more seconds than the instance's time_limit has
\* been interrupted and has raised ReadabilityError
C6_Witness ==
    \E t \in Threads :
        /\ Done(t) /\ IsParse(t)
        /\ th[t].call.doc.work > inst[th[t].inst].time_limit
        /\ EvalRaised(t)
        /\ RaisedReadabilityError(t)

---------------------------------------------------------------------------
(* C7 *)

\* a thread is inside a block: it holds an instance
InBlock(t) == th[t].pc # "idle"

\* C7: each call of a convenience function works on an instance of its own,
\* new as the call starts (no context, not initialized, the default limits),
\* whose context no other instance names; when the call is over the thread
\* holds no instance, and once every call is over no instance and no
\* context is left.
C7_CallsShareNothing ==
    /\ \A t \in Threads :
          /\ InBlock(t) <=> th[t].inst # 0
          /\ InBlock(t) => inst[th[t].inst].live
          /\ (th[t].pc = "block" /\ th[t].n = 0 /\ th[t].fn # "with") =>
                 inst[th[t].inst] =
                     Readability(DefaultMemoryLimit, DefaultTimeLimit)
    /\ \A t, u \in Threads :
          (t # u /\ InBlock(t) /\ InBlock(u)) => th[t].inst # th[u].inst
    /\ \A i, j \in InstIds :
          (i # j /\ inst[i].live /\ inst[j].live /\ inst[i].context # 0)
              => inst[i].context # inst[j].context
    /\ (\A t \in Threads : ~InBlock(t)) =>
          /\ \A i \in InstIds : ~inst[i].live
          /\ \A c \in CtxIds : ~ctx[c].live

\* two convenience calls are under way at once, each on its own initialized
\* instance and context
C7_Witness ==
    \E t, u \in Threads :
        /\ t # u
        /\ th[t].pc = "eval" /\ th[u].pc = "eval"
        /\ th[t].fn # "with" /\ th[u].fn # "with"
        /\ inst[th[t].inst].context # inst[th[u].inst].context
        /\ ContextOfThread(t).live /\ ContextOfThread(u).live

---------------------------------------------------------------------------
(* C8 *)

RECURSIVE LoadAll(_, _, _)
\* the loop of _initialize_context run from file k on, undisturbed: the
\* loaded context, or the exception raised
LoadAll(c, k, dir) ==
    IF k > Len(js_files) THEN Return(c)
    ELSE IF js_files[k] \notin dir
    THEN Raise("ReadabilityError", "JavaScript file not found", PyStr(js_files[k]))
    ELSE LET r == Context_eval_file(c, js_files[k]) IN
         IF r.k = "raise" THEN r ELSE LoadAll(r.v, k + 1, dir)

\* the outcome of a call made alone on a new instance with the given limits
RunAlone(call, memory_limit, time_limit, dir) ==
    IF call.m = "parse_from_url" /\ call.net # "ok"
    THEN fetch_failure(call.net)
    ELSE LET loaded == LoadAll([Context EXCEPT !.memory_limit = memory_limit,
                                              !.time_limit = time_limit],
                               1, dir) IN
         IF loaded.k = "raise" THEN WrapInit(loaded)
         ELSE CallOutcome(call.m,
                  finish_call(EngineFn(call.m), loaded.v,
                              Context_eval(loaded.v, EngineFn(call.m), call.doc,
                                           OptionsOrEmpty(call.options)),
                              call.doc))

---------------------------------------------------------------------------
(* C9 *)

\* the call before this one, in the same block, was the pre-check of the
\* same markup with the same options
CheckedBefore(t) ==
    /\ SameInstanceBefore(t)
    /\ th[t].prev.call.m = "check"
    /\ th[t].prev.call.doc = th[t].call.doc
    /\ th[t].prev.call.options = th[t].call.options

\* C9: when is_probably_readerable has returned True, parse of the same
\* markup with the same options neither fails below the threshold nor
\* returns an empty article.
C9_PrecheckMonotonic ==
    \A t \in Threads :
        ( /\ Done(t) /\ IsParse(t)
          /\ CheckedBefore(t)
          /\ th[t].prev.out = Return(PyBool(TRUE)) )
        => /\ ~(th[t].out.k = "raise" /\ th[t].out.detail = PyStr("BelowThreshold"))
           /\ th[t].out # Return(EmptyResult)

\* after a pre-check that returned True, parse has returned the article
C9_Witness ==
    \E t \in Threads :
        /\ Done(t) /\ IsParse(t) /\ CheckedBefore(t)
        /\ th[t].prev.out = Return(PyBool(TRUE))
        /\ th[t].out.k = "return"
        /\ th[t].out.v.length = PyInt(th[t].call.doc.len)

---------------------------------------------------------------------------
(* C10 *)

\* markup whose only text is short boilerplate: it parses, and its text is
\* not empty and under the threshold of the options
Boilerplate(call) ==
    /\ call.doc.wf
    /\ call.doc.len > 0
    /\ call.doc.len < CharThreshold(OptionsOrEmpty(call.options))

\* C10: on markup whose only text is short boilerplate the pre-check, once
\* the context is initialized, returns False -- called as the method of a
\* reader or through the convenience function of utils.
C10_BoilerplateNotReaderable ==
    \A t \in Threads :
        ( /\ Done(t)
          /\ th[t].fn \in {"with", "is_probably_readerable"}
          /\ IsCheck(t)
          /\ Boilerplate(th[t].call)
          /\ ~InitFailed(t) )
        => th[t].out = Return(PyBool(FALSE))

\* the method has returned False for "<div>Short</div>", and then the
\* convenience function has too
C10_Witness ==
    \E t \in Threads :
        /\ Done(t) /\ IsCheck(t)
        /\ th[t].fn = "is_probably_readerable"
        /\ th[t].call.doc = ShortDoc
        /\ th[t].out = Return(PyBool(FALSE))
        /\ th[t].prev.fn = "with"
        /\ th[t].prev.call.m = "check"
        /\ th[t].prev.call.doc = ShortDoc
        /\ th[t].prev.out = Return(PyBool(FALSE))

---------------------------------------------------------------------------
(* C11 *)

\* C11: once a `with Readability(...) as reader` block is left, whatever
\* calls were made in it and however they ended, reader._context is None
\* and reader._initialized is False.
C11_CleanAfterBlock ==
    \A t \in Threads :
        th[t].left.bound =>
            /\ th[t].left.context = 0
            /\ th[t].left.initialized = FALSE

\* a block has been left whose last call failed to initialize after the
\* context had been created (a JS file was missing)
C11_Witness ==
    \E t \in Threads :
        /\ th[t].pc = "idle"
        /\ th[t].left.bound
        /\ th[t].prev.fn = "with"
        /\ th[t].prev.out.k = "raise"
        /\ th[t].prev.out.msg = "Failed to initialize JavaScript context"
        /\ th[t].prev.out.detail.v \in {js_files[k] : k \in 1..Len(js_files)}

---------------------------------------------------------------------------
(* C12 *)

\* the call of thread t has reached _initialize_context: parse or
\* is_probably_readerable has been entered (parse_from_url enters parse
\* only after its fetch)
MethodEntered(t) ==
    /\ th[t].call.m # "none"
    /\ th[t].pc # "fetch"
    /\ th[t].call.m = "parse_from_url" => th[t].call.net = "ok"

\* C12: a new instance holds exactly the limits it was given (the defaults
\* 50 MB and 10 s when the convenience functions build it), names no context
\* and is not initialized; it keeps its limits for the whole block and has
\* no context and no initialized flag before parse or
\* is_probably_readerable is first entered.
C12_LazyConstruction ==
    \A t \in Threads :
        InBlock(t) =>
            LET r == inst[th[t].inst] IN
            /\ r.memory_limit = th[t].limits[1]
            /\ r.time_limit = th[t].limits[2]
            /\ th[t].fn # "with" =>
                   th[t].limits = <<DefaultMemoryLimit, DefaultTimeLimit>>
            /\ ~MethodEntered(t) => (r.context = 0 /\ ~r.initialized)
            /\ r.initialized => r.context # 0

\* an instance built with limits of its own (25 MB, 5 s) is in its block,
\* no call made yet: it holds those limits, no context, and is uninitialized
C12_Witness ==
    \E t \in Threads :
        /\ th[t].pc = "block"
        /\ th[t].n = 0
        /\ th[t].limits = <<25, 5>>
        /\ inst[th[t].inst] =
               [live |-> TRUE, memory_limit |-> 25, time_limit |-> 5,
                context |-> 0, initialized |-> FALSE]

---------------------------------------------------------------------------
(* C13 *)

\* the key each field of a ReadabilityResult is read from
KeyOf ==
    [title |-> "title", content |-> "content", text_content |-> "textContent",
     length |-> "length", excerpt |-> "excerpt", byline |-> "byline",
     dir |-> "dir", site_name |-> "siteName", lang |-> "lang",
     published_time |-> "publishedTime"]

\* C13: from_dict returns a ReadabilityResult each of whose fields holds
\* the value of the field's own key, and None when the key is absent; for
\* None and for the empty dict every field is None.
C13_FromDictMapsOwnKeys ==
    (pure.fn = "from_dict" /\ pure.out # NoOutcome) =>
        /\ pure.out.k = "return"
        /\ DOMAIN pure.out.v = DOMAIN KeyOf \cup {"t"}
        /\ pure.out.v.t = "ReadabilityResult"
        /\ \A f \in DOMAIN KeyOf :
              pure.out.v[f] =
                  IF pure.arg # None /\ KeyOf[f] \in DOMAIN pure.arg.v
                  THEN pure.arg.v[KeyOf[f]]
                  ELSE None
        /\ (pure.arg = None \/ pure.arg = Dict(<<>>)) => pure.out.v = EmptyResult

\* from_dict has been applied to a dict that holds siteName and length and
\* the decoy site_name, but no title
C13_Witness ==
    /\ pure.fn = "from_dict"
    /\ pure.out.k = "return"
    /\ pure.arg # None
    /\ {"siteName", "length", "site_name"} \subseteq DOMAIN pure.arg.v
    /\ "title" \notin DOMAIN pure.arg.v
    /\ pure.out.v.site_name = PyStr("siteName")
    /\ pure.out.v.length = PyInt(100)
    /\ pure.out.v.title = None

---------------------------------------------------------------------------
(* C14 *)

---------------------------------------------------------------------------
(* C15 *)

\* the key each parameter of create_custom_options is put under
OptionKeyOf ==
    [char_threshold |-> "charThreshold", keep_classes |-> "keepClasses",
     classes_to_preserve |-> "classesToPreserve",
     max_elems_to_parse |-> "maxElemsToParse",
     nb_top_candidates |-> "nbTopCandidates", debug |-> "debug",
     disable_json_ld |-> "disableJSONLD",
     link_density_modifier |-> "linkDensityModifier"]

\* the documented defaults
DocumentedDefaults ==
    [charThreshold |-> PyInt(500), maxElemsToParse |-> PyInt(0),
     nbTopCandidates |-> PyInt(5), classesToPreserve |-> PyList(<<>>),
     keepClasses |-> PyBool(FALSE), disableJSONLD |-> PyBool(FALSE),
     linkDensityModifier |-> PyInt(0), debug |-> PyBool(FALSE)]

\* C15: create_custom_options returns a dict of exactly the eight option
\* keys, each holding the argument of its own parameter when that is given
\* (an empty list for classes_to_preserve None) and the documented default
\* when not; get_default_options holds the documented defaults, and equals
\* create_custom_options() on every key they share.
C15_OptionBuilders ==
    /\ (pure.fn = "create_custom_options" /\ pure.out # NoOutcome) =>
          LET options == pure.out.v.v IN
          /\ pure.out.v.t = "dict"
          /\ DOMAIN options = {OptionKeyOf[n] : n \in DOMAIN OptionKeyOf}
          /\ \A n \in DOMAIN OptionKeyOf :
                IF n \in DOMAIN pure.arg /\ pure.arg[n] # None
                THEN options[OptionKeyOf[n]] = pure.arg[n]
                ELSE PyEq(options[OptionKeyOf[n]],
                          DocumentedDefaults[OptionKeyOf[n]])
    /\ (pure.fn = "get_default_options" /\ pure.out # NoOutcome) =>
          LET defaults == pure.out.v.v
              custom == create_custom_options(<<>>).v IN
          /\ DOMAIN DocumentedDefaults \subseteq DOMAIN defaults
          /\ \A key \in DOMAIN DocumentedDefaults :
                PyEq(defaults[key], DocumentedDefaults[key])
          /\ \A key \in DOMAIN defaults \cap DOMAIN custom :
                PyEq(defaults[key], custom[key])

\* create_custom_options has been called with keep_classes and
\* char_threshold only: those two are set, debug keeps its default
C15_Witness ==
    /\ pure.fn = "create_custom_options"
    /\ pure.out.k = "return"
    /\ DOMAIN pure.arg = {"keep_classes", "char_threshold"}
    /\ pure.out.v.v["keepClasses"] = PyBool(TRUE)
    /\ pure.out.v.v["charThreshold"] = PyInt(200)
    /\ pure.out.v.v["debug"] = PyBool(FALSE)

---------------------------------------------------------------------------
(* C16 *)

\* C16: parse and is_probably_readerable request nothing from the network,
\* whatever their url argument; parse_from_url calls requests.get at most
\* once and only for the url it was given -- exactly once when its call is
\* over, unless the requests library could not be imported -- and what it
\* then hands to parse is the text of the response and that same url.
C16_UrlNeverFetched ==
    \A t \in Threads :
        /\ th[t].call.m \in {"parse", "check"} => th[t].gets = <<>>
        /\ th[t].call.m = "parse_from_url" =>
              /\ th[t].gets \in {<<>>, <<th[t].url>>}
              /\ (th[t].pc # "fetch" /\ th[t].call.net # "import_error")
                     => th[t].gets = <<th[t].url>>
              /\ th[t].args.given =>
                     /\ th[t].gets = <<th[t].url>>
                     /\ th[t].args.html = th[t].call.doc
                     /\ th[t].args.url = th[t].url

\* parse has ended with an address as its url and nothing requested, after
\* a parse_from_url in an earlier block
C16_Witness ==
    \E t \in Threads :
        /\ Done(t)
        /\ th[t].call.m = "parse"
        /\ th[t].url = "https://example.com/a"
        /\ th[t].args.given
        /\ th[t].gets = <<>>
        /\ th[t].prev.fn = "parse_from_url"
        /\ th[t].prev.out.k = "return"

---------------------------------------------------------------------------
(* C17 *)

\* C17: whatever makes parse_from_url fail -- the requests library missing,
\* the request raising, an HTTP error status, or the parsing -- what escapes
\* is a ReadabilityError; and when the fetch or the status check fails,
\* parse is not invoked.
C17_UrlFailuresAreReadabilityErrors ==
    \A t \in Threads :
        (Done(t) /\ th[t].call.m = "parse_from_url") =>
            /\ th[t].out.k = "raise" => th[t].out.exc = "ReadabilityError"
            /\ th[t].call.net # "ok" =>
                   /\ th[t].out.k = "raise"
                   /\ ~th[t].args.given
                   /\ inst[th[t].inst].context = 0

---------------------------------------------------------------------------
(* C18 *)

\* the process ran --check and is_probably_readerable returned
CheckCompleted == proc.args.check /\ proc.result.k = "return"

\* what the output destination holds
Destination == IF proc.args.output = "stdout" THEN proc.stdout ELSE proc.file

\* the answer as --check words it
AnswerText ==
    IF proc.args.json THEN Dict([readerable |-> proc.result.v])
    ELSE IF proc.result.v = PyBool(TRUE) THEN PyStr("yes") ELSE PyStr("no")

---------------------------------------------------------------------------
(* C19 *)

\* the second of two runs that differ in --debug alone has ended
BothRunsOver == proc.pc = "exited" /\ proc.run = 2

\* C19: of two runs of the same command line in the same environment, one
\* with --debug and one without, the second ends with the exit status of
\* the first, with the same content on stdout and in the output file, and
\* with the same outcome of the reader's method: the same value returned or
\* the same exception.
C19_DebugChangesNothing ==
    BothRunsOver =>
        /\ proc.status = proc.first.status
        /\ proc.stdout = proc.first.stdout
        /\ proc.file = proc.first.file
        /\ proc.result = proc.first.result

\* the run with --debug has parsed an article, failed to print it to a
\* broken stdout and ended in the last handler of main, which printed the
\* traceback, with status 1 as the run without --debug did
C19_Witness ==
    /\ BothRunsOver
    /\ proc.args.debug
    /\ ~proc.args.check
    /\ proc.leaving.k = "raise"
    /\ proc.leaving.exc = "BrokenPipeError"
    /\ proc.stderr = "traceback"
    /\ proc.result.k = "return"
    /\ proc.result.v.title = PyStr("title")
    /\ proc.status = PyInt(1)
    /\ proc.first.status = PyInt(1)

---------------------------------------------------------------------------
(* C20 *)

\* C20: all through a call of parse or is_probably_readerable, and after it
\* has returned or raised, the options dict and the markup string the
\* caller passed hold what they held at the call; and a call given
\* options=None hands the engine an empty options object, whatever options
\* the calls before it were given.
C20_InputsNotMutated ==
    \A t \in Threads :
        th[t].call.m \in {"parse", "check"} =>
            /\ th[t].held.options = th[t].call.options
            /\ th[t].held.html = th[t].call.doc
            /\ th[t].args.given =>
                   /\ th[t].args.html = th[t].call.doc
                   /\ th[t].args.options =
                          IF th[t].call.options = None THEN Dict(<<>>)
                          ELSE th[t].call.options

\* a call given a dict of options that holds a list has raised, and the
\* call before it in the block was given options=None
C20_Witness ==
    \E t \in Threads :
        /\ Done(t)
        /\ th[t].call.m = "parse"
        /\ th[t].out.k = "raise"
        /\ th[t].args.given
        /\ th[t].call.options # None
        /\ th[t].held.options.v["classesToPreserve"] = PyList(<<"article">>)
        /\ SameInstanceBefore(t)
        /\ th[t].prev.call.options = None


---------------------------------------------------------------------------
(* C21 *)

\* the steps of _initialize_context between its test of _initialized and
\* its last assignment
InitSteps == {"new_context", "set_memory_limit", "set_time_limit", "load", "mark"}

\* the limits of the instance are set on context c
LimitsSet(r, c) ==
    c.live /\ c.memory_limit = r.memory_limit /\ c.time_limit = r.time_limit

\* context c has had JSDOMParser.js, Readability.js and
\* readability_wrapper.js evaluated in it, each once, in that order
FullyLoaded(c) == c.live /\ c.loaded = js_files

\* C21: _initialize_context creates a new QuickJS context; every JS file is
\* evaluated in a context that already carries the instance's memory and
\* time limit, and the files are evaluated in the order JSDOMParser.js,
\* Readability.js, readability_wrapper.js; _initialized turns True only
\* when all three are evaluated; a call on an initialized instance goes
\* straight to its JS call, creating no context and evaluating no file.
C21_InitializationOrder ==
    [][\A t \in Threads :
        LET i == th[t].inst
            r == inst[i]
            c == ContextOf(inst, ctx, i) IN
        /\ (th[t].pc = "new_context" /\ th'[t].pc # "new_context") =>
               /\ inst'[i].context # 0
               /\ ~ctx[inst'[i].context].live
               /\ ctx'[inst'[i].context] = Context
        /\ (th[t].pc \in InitSteps /\ c.live
              /\ inst'[i].context = r.context
              /\ ctx'[r.context].loaded # c.loaded) =>
               /\ LimitsSet(r, c)
               /\ Len(c.loaded) < Len(js_files)
               /\ ctx'[r.context].loaded =
                      Append(c.loaded, js_files[Len(c.loaded) + 1])
        /\ (th[t].pc \in InitSteps /\ ~r.initialized /\ inst'[i].initialized) =>
               /\ FullyLoaded(c)
               /\ LimitsSet(r, c)
               /\ inst'[i].context = r.context
        /\ th[t].pc \in InitSteps => ~r.initialized
        /\ (th[t].pc = "init" /\ r.initialized) =>
               /\ th'[t].pc = "eval"
               /\ inst' = inst
               /\ ctx' = ctx
        /\ th[t].pc \in {"init", "eval", "convert", "fetch"} =>
               /\ inst' = inst
               /\ ctx' = ctx
    ]_vars

\* the second call of a block is about to evaluate its JS call on the
\* context the first call initialized
C21_Witness ==
    \E t \in Threads :
        /\ th[t].pc = "eval"
        /\ th[t].n = 2
        /\ th[t].prev.out.k = "return"
        /\ inst[th[t].inst].initialized
        /\ FullyLoaded(ContextOfThread(t))
        /\ LimitsSet(inst[th[t].inst], ContextOfThread(t))


---------------------------------------------------------------------------
(* C22 *)

\* nothing has been written to stdout or to the --output file
NothingWritten == proc.stdout = None /\ proc.file = None

\* the method main called on the reader raised
MethodRaised == proc.result.k = "raise"

\* C22: a run of the CLI whose input cannot be read, or whose call of parse
\* or is_probably_readerable raises, ends with status 1 and with nothing
\* written to stdout or to the --output file; nothing is written before the
\* method has returned, and a parse run has written only when parse
\* returned a result.
C22_FailureWritesNothing ==
    /\ (proc.pc = "exited" /\ (proc.env.read = "error" \/ MethodRaised)) =>
           /\ proc.status = PyInt(1)
           /\ NothingWritten
    /\ proc.pc \in {"start", "enter", "reader"} => NothingWritten
    /\ (proc.pc # "none" /\ ~proc.args.check /\ ~NothingWritten) =>
           /\ proc.result.k = "return"
           /\ proc.result.v.t = "ReadabilityResult"

\* a parse run writing to a file has ended with status 1 after parse raised
\* a ReadabilityError, and the file was not written
C22_Witness ==
    /\ proc.pc = "exited"
    /\ ~proc.args.check
    /\ proc.args.output = "file"
    /\ proc.env.write = "ok"
    /\ MethodRaised
    /\ proc.result.exc = "ReadabilityError"
    /\ proc.status = PyInt(1)
    /\ proc.file = None


---------------------------------------------------------------------------
(* C23 *)

\* the process ran without --check and parse returned a result
ParseCompleted ==
    /\ proc.pc \in {"leave", "exited"}
    /\ ~proc.args.check
    /\ proc.result.k = "return"

\* None is written as the empty string
OrEmpty(x) == IF x = None THEN PyStr("") ELSE x

\* C23: a run without --check whose parse returned has called write_output
\* once.  What it wrote is the title with --title-only; else the text with
\* --text-only; else, with --json, an object of the ten keys title,
\* content, textContent, length, excerpt, byline, dir, siteName, lang and
\* publishedTime, each holding its field of the result; else the default
\* layout of labelled lines.  A None title or text is written as "".
C23_OutputSelection ==
    ParseCompleted =>
        /\ proc.writes = 1
        /\ proc.env.write = "ok" =>
            LET a == proc.args
                result == proc.result.v
                written == Destination IN
            /\ a.title_only => written = OrEmpty(result.title)
            /\ (~a.title_only /\ a.text_only) =>
                   written = OrEmpty(result.text_content)
            /\ (~a.title_only /\ ~a.text_only /\ a.json) =>
                   /\ written.t = "dict"
                   /\ DOMAIN written.v = ArticleKeys
                   /\ \A field \in DOMAIN KeyOf :
                          written.v[KeyOf[field]] = result[field]
            /\ (~a.title_only /\ ~a.text_only /\ ~a.json) =>
                   /\ written.t = "list"
                   /\ \E k \in 1..Len(written.v) :
                          written.v[k] = <<"", PyStr("")>>

\* a run given --title-only, --text-only and --json together has written
\* the empty string for the None title of an empty article
C23_Witness ==
    /\ ParseCompleted
    /\ proc.env.write = "ok"
    /\ proc.args.title_only /\ proc.args.text_only /\ proc.args.json
    /\ proc.result.v.title = None
    /\ Destination = PyStr("")
    /\ proc.writes = 1


---------------------------------------------------------------------------
(* C24 *)

\* the files a call's initialization has evaluated when it stands at pc
\* with loop index k
LoadedAt(pc, k) ==
    IF pc \in {"set_memory_limit", "set_time_limit"} THEN <<>>
    ELSE IF pc = "load" THEN SubSeq(js_files, 1, k - 1)
    ELSE js_files

\* the JS call ran where the wrapper was not there to be called
WrapperMissing(js) ==
    \/ js.k = "raise" /\ js.exc = "AttributeError"
    \/ /\ js.k = "return"
       /\ js.v.v["success"] = PyBool(FALSE)
       /\ js.v.v["error"] = PyStr("ReadabilityWrapper is not defined")

\* C24: on an instance one thread uses, _initialized implies that _context
\* is a context carrying the instance's limits in which the three files
\* were evaluated; the JS call of parse and of is_probably_readerable is
\* evaluated on such a context only; and a call that finds the instance
\* not initialized -- after a failed initialization too -- initializes a new
\* context, other than the one the failed attempt left, from its first
\* step on.
C24_InitializedMeansLoaded ==
    \A t \in Threads :
        th[t].inst # 0 =>
            LET r == inst[th[t].inst]
                c == ContextOfThread(t) IN
            /\ r.initialized =>
                   /\ r.context # 0
                   /\ FullyLoaded(c)
                   /\ LimitsSet(r, c)
            /\ th[t].pc = "eval" => (r.initialized /\ FullyLoaded(c))
            /\ th[t].args.given => ~WrapperMissing(th[t].js)
            /\ ( /\ th[t].pc \in (InitSteps \ {"new_context"}) \cup {"eval", "convert"}
                 /\ ~th[t].before.reader.initialized ) =>
                   /\ r.context # 0
                   /\ r.context # th[t].before.reader.context
                   /\ c.live
                   /\ th[t].pc \in InitSteps =>
                          c.loaded = LoadedAt(th[t].pc, th[t].k)

\* the call before left a context with one file in it and _initialized
\* False; this call has made a new context and evaluated the first file in
\* it again
C24_Witness ==
    \E t \in Threads :
        /\ th[t].n = 2
        /\ th[t].pc = "load"
        /\ th[t].k = 2
        /\ ~th[t].before.exited
        /\ ~th[t].before.reader.initialized
        /\ th[t].before.reader.context # 0
        /\ inst[th[t].inst].context # th[t].before.reader.context
        /\ ContextOfThread(t).loaded = <<js_files[1]>>


---------------------------------------------------------------------------
(* C25 *)

\* thread t is in a call, or has ended one, and __exit__ has not run since
InCall(t) == th[t].before.taken /\ ~th[t].left.bound

\* the call of thread t has passed _initialize_context
PastInit(t) == th[t].pc \in {"eval", "convert"} \/ th[t].args.given

\* the call of thread t runs a complete initialization: from its second
\* step on a context other than the one the call found carries the files
\* evaluated so far, and the JS call meets the three files and the limits
NewInitialization(t) ==
    LET r == inst[th[t].inst]
        c == ContextOfThread(t) IN
    /\ ~th[t].before.reader.initialized
    /\ th[t].pc \in (InitSteps \ {"new_context"}) =>
           /\ r.context # 0
           /\ r.context # th[t].before.reader.context
           /\ c.loaded = LoadedAt(th[t].pc, th[t].k)
    /\ PastInit(t) =>
           /\ r.context # 0
           /\ r.context # th[t].before.reader.context
           /\ FullyLoaded(c)
           /\ LimitsSet(r, c)
           /\ ~WrapperMissing(th[t].js)

\* the call of thread t runs on the context it found, creating none and
\* evaluating no file
ReusesContext(t) ==
    /\ th[t].pc \notin InitSteps
    /\ inst[th[t].inst].context = th[t].before.reader.context
    /\ ContextOfThread(t).loaded = js_files

\* C25 as stated: a call made after __exit__ runs a complete new
\* initialization before its JS call, and a call made with no __exit__ since
\* the call before it runs on the context it found.
C25_ReusableAfterCleanup ==
    \A t \in Threads :
        InCall(t) =>
            /\ th[t].before.exited => NewInitialization(t)
            /\ (~th[t].before.exited /\ th[t].before.reader.context # 0) =>
                   ReusesContext(t)

\* C25, amended: a call made after __exit__ runs a complete new
\* initialization before its JS call, and a call made with no __exit__ since
\* a call that left the instance initialized runs on the context it found.
C25_ReusableAfterCleanupWhenInitialized ==
    \A t \in Threads :
        InCall(t) =>
            /\ th[t].before.exited => NewInitialization(t)
            /\ (~th[t].before.exited /\ th[t].before.reader.initialized) =>
                   ReusesContext(t)

\* the second call on an instance, made after __exit__, is about to
\* evaluate its JS call on a context it has made and loaded
C25_Witness ==
    \E t \in Threads :
        /\ th[t].n = 2
        /\ th[t].pc = "eval"
        /\ th[t].before.exited
        /\ FullyLoaded(ContextOfThread(t))


---------------------------------------------------------------------------
(* C26 *)

\* an outcome that is a ReadabilityError raised past _initialize_context:
\* by the engine's report of failure, by a JS exception, by a budget
FailedPastInit(out) ==
    /\ out.k = "raise"
    /\ out.exc = "ReadabilityError"
    /\ out.msg # "Failed to initialize JavaScript context"

\* the call of thread t has ended in such an error, and __exit__ has not
\* run since
CallFailedPastInit(t) == Done(t) /\ InCall(t) /\ FailedPastInit(th[t].out)

\* C26 as stated: when a call has raised ReadabilityError past its
\* initialization, memory_limit, time_limit, _initialized and _context of
\* the instance are what they were before the call.
C26_FailedCallLeavesInstance ==
    \A t \in Threads :
        CallFailedPastInit(t) => inst[th[t].inst] = th[t].before.reader

\* C26, amended: the JS call and the conversion of its reply change no
\* field of the instance and nothing in its context, so when a call has
\* raised ReadabilityError past its initialization, memory_limit and
\* time_limit are what they were before the call, _initialized is True and
\* _context is the loaded context the initialization step of the call
\* left -- all four as before the call when the call found the instance
\* initialized -- and the next call on the instance runs on that context.
C26_FailedCallLeavesInitializedInstance ==
    [][\A t \in Threads :
        LET r == inst[th[t].inst]
            c == ContextOfThread(t) IN
        /\ th[t].pc \in {"eval", "convert"} =>
               /\ inst' = inst
               /\ ctx' = ctx
        /\ CallFailedPastInit(t) =>
               /\ r.memory_limit = th[t].before.reader.memory_limit
               /\ r.time_limit = th[t].before.reader.time_limit
               /\ r.initialized
               /\ FullyLoaded(c)
               /\ LimitsSet(r, c)
               /\ th[t].before.reader.initialized => r = th[t].before.reader
        /\ (CallFailedPastInit(t) /\ th'[t].pc = "init") =>
               /\ th'[t].before.reader = r
               /\ ~th'[t].before.exited
        /\ ( /\ th[t].n >= 2
             /\ th[t].before.taken /\ ~th[t].before.exited
             /\ th[t].prev.fn # "none"
             /\ FailedPastInit(th[t].prev.out)
             /\ th[t].pc \in {"init", "eval", "convert"} ) =>
               /\ r = th[t].before.reader
               /\ FullyLoaded(c)
               /\ th'[t].pc \notin InitSteps
    ]_vars

\* the first call on an instance ran over its time limit and raised; the
\* second, on a document within the limits, is about to be evaluated on the
\* context the first left
C26_Witness ==
    \E t \in Threads :
        /\ th[t].n = 2
        /\ th[t].pc = "eval"
        /\ ~th[t].before.exited
        /\ FailedPastInit(th[t].prev.out)
        /\ th[t].prev.out.detail = PyStr("interrupted")
        /\ th[t].prev.n = 1
        /\ inst[th[t].inst] = th[t].before.reader
        /\ InTime(ContextOfThread(t), th[t].call.doc.work)


---------------------------------------------------------------------------
(* C27 *)

\* the number of times `file` was evaluated in context c
Evaluations(c, file) ==
    Cardinality({k \in 1..Len(c.loaded) : c.loaded[k] = file})

\* C27: when several threads call parse or is_probably_readerable on one
\* instance that is not initialized yet, then however the statements of
\* their _initialize_context runs interleave, no file is evaluated twice in
\* the context _context names, _initialized is True only when that context
\* holds the three files, each evaluated once, and no thread evaluates its
\* JS call on a context that lacks one of them.
C27_SharedInitializationSafe ==
    \A t \in Threads :
        LET r == inst[th[t].inst]
            c == ContextOfThread(t) IN
        /\ c.live => \A k \in 1..Len(js_files) : Evaluations(c, js_files[k]) <= 1
        /\ r.initialized => FullyLoaded(c)
        /\ th[t].pc = "eval" => FullyLoaded(c)
        /\ th[t].args.given => ~WrapperMissing(th[t].js)

====
